---- MODULE Spec2Model ----
(***************************************************************************)
(* Model of src/utils.cpp of rsparse:                                      *)
(*   cpp_make_sparse_approximation  (lines 4-55)                           *)
(*   omp_thread_count               (lines 81-88)                          *)
(*                                                                         *)
(* Index arrays and matrix columns are functions over 0..n-1, as in the    *)
(* source.  Doubles are modelled by integers: with small integer entries   *)
(* every product and sum of the source is exact.                           *)
(***************************************************************************)
EXTENDS Integers, FiniteSets, Sequences, TLC

\* ----------------------------------------------------------------- bounds
MaxDim == 2
MaxNnz == 2
MaxK == 2
MaxKOut == 1
MaxVal == 1
MaxThreads == 2
MaxGrain == 2
MaxTeam == 4

\* ------------------------------------------------------ program constants
\* utils.cpp:17 "Should be CSC=1 or CSR=2"
CSC == 1
CSR == 2

Vals == 0..MaxVal
Workers == 1..MaxThreads
Threads == 1..MaxTeam

VARIABLES
  mat_template,        \* S4 object: [p, inner, Dim]; inner is slot "j" (CSR) or "i" (CSC)
  X, Y,                \* arma::mat: [n_rows, n_cols, col]
  sparse_matrix_type,  \* int argument
  n_threads,           \* unsigned argument
  openmp,              \* whether the build defines _OPENMP
  grain_size,          \* GRAIN_SIZE of the schedule clause
  pc,                  \* position of the calling thread
  N,                   \* uint32_t N (line 24)
  allocated,           \* approximated_values has been constructed (line 30)
  approximated_values, \* the output vector
  next_iter,           \* the dynamic schedule's shared iteration counter
  wpc, wi, wend,       \* per worker: position, loop variable i, end of its chunk
  wpp, wp2, xc,        \* per worker: loop variable pp, p2, the row vector xc
  written,             \* history: for each slot, the outer indices that wrote it, in order
  units_done,          \* history: for each outer index, how often its iteration completed
  tc_pc, tc_team, n, n_private, th_pc, tc_ret  \* omp_thread_count

inputs == <<mat_template, X, Y, sparse_matrix_type, n_threads, openmp, grain_size>>
main == <<pc, N, allocated>>
locals == <<wi, wend, wpp, wp2, xc>>
hist == <<written, units_done>>
approx == <<main, approximated_values, next_iter, wpc, locals, hist>>
tcvars == <<tc_pc, tc_team, n, n_private, th_pc, tc_ret>>
vars == <<inputs, approx, tcvars>>

\* ---------------------------------------------------------------- helpers
Length(v) == Cardinality(DOMAIN v)

Min(a, b) == IF a < b THEN a ELSE b

\* as_scalar(xc * M.col(ind)): the product of a 1 x k row by a k x 1 column
RECURSIVE DotUpTo(_, _, _)
DotUpTo(a, b, f) == IF f = 0 THEN 0 ELSE DotUpTo(a, b, f - 1) + a[f - 1] * b[f - 1]

\* a product that stops after the first factor
DotFirstTerm(a, b) == DotUpTo(a, b, Min(1, Length(a)))

Dot(a, b) == DotUpTo(a, b, Length(a))

\* lines 25-28
OuterDim(type, dim) == IF type = CSR THEN dim[0] ELSE dim[1]

\* lines 40-43: the matrix xc is taken from
OuterFactor(type, x, y) == IF type = CSR THEN x ELSE y

\* the CSC branch of line 50 multiplying with Y, as the CSR branch does
InnerFactorSame(type, x, y) == y

\* lines 47-50: the matrix whose column ind multiplies xc
InnerFactor(type, x, y) == IF type = CSR THEN y ELSE x

\* the final else of lines 14-17 taken as the CSC branch
AnyType(type) == TRUE

\* lines 12-17: the types the function accepts
KnownType(type) == type = CSR \/ type = CSC

\* M.col(c).  Reading a column the matrix does not have is undefined: the
\* build either aborts (see Crash) or reads whatever is there.
Col(M, c) == IF c < M.n_cols THEN {M.col[c]} ELSE [0..(M.n_rows - 1) -> Vals]

\* num_threads(n_threads); without _OPENMP the loop runs on the caller alone
Team == IF openmp THEN n_threads ELSE 1

\* ------------------------------------------------------------------ inputs
\* k x c matrices, c in 1..MaxDim
Matrices(k) ==
  UNION {[n_rows : {k}, n_cols : {c}, col : [0..(c - 1) -> [0..(k - 1) -> Vals]]] : c \in 1..MaxDim}

\* slot "p": non-decreasing, p[0] = 0, p[nOuter] = number of nonzeros
Pointers(nOuter) ==
  {q \in [0..nOuter -> 0..MaxNnz] : q[0] = 0 /\ \A o \in 0..(nOuter - 1) : q[o] <= q[o + 1]}

\* the sparse matrix objects of a given Dim whose slot "p" has nOuter + 1 entries
Templates(dim, nOuter) ==
  UNION {[p : {q}, inner : [0..(q[nOuter] - 1) -> 0..(MaxDim - 1)], Dim : {dim}] : q \in Pointers(nOuter)}

\* the caller's contract (spec sections 3 and 4.1)
InnerDim(type, dim) == IF type = CSR THEN dim[1] ELSE dim[0]

InContract ==
  /\ X.n_cols = mat_template.Dim[0]
  /\ Y.n_cols = mat_template.Dim[1]
  /\ X.n_rows = Y.n_rows
  /\ \A pp \in DOMAIN mat_template.inner :
       mat_template.inner[pp] < InnerDim(sparse_matrix_type, mat_template.Dim)

TCIdle ==
  /\ tc_pc = "start"
  /\ tc_team = 1
  /\ n = 0
  /\ n_private = [t \in Threads |-> 0]
  /\ th_pc = [t \in Threads |-> "out"]
  /\ tc_ret = 0

ApproxStart ==
  /\ pc = "start"
  /\ N = 0
  /\ allocated = FALSE
  /\ approximated_values = <<>>
  /\ next_iter = 0
  /\ wpc = [t \in Workers |-> "out"]
  /\ wi = [t \in Workers |-> 0]
  /\ wend = [t \in Workers |-> 0]
  /\ wpp = [t \in Workers |-> 0]
  /\ wp2 = [t \in Workers |-> 0]
  /\ xc = [t \in Workers |-> <<>>]
  /\ written = <<>>
  /\ units_done = <<>>

Init ==
  /\ sparse_matrix_type \in 0..3
  /\ \E dim \in [0..1 -> 1..MaxDim] :
       mat_template \in Templates(dim, OuterDim(sparse_matrix_type, dim))
  /\ \E k \in 1..MaxK : X \in Matrices(k) /\ Y \in Matrices(k)
  /\ InContract \/ X.n_rows <= MaxKOut
  /\ \E b \in ({TRUE} \X (1..MaxThreads)) \cup {<<FALSE, MaxThreads>>} :
       openmp = b[1] /\ n_threads = b[2]
  /\ grain_size \in 1..MaxGrain
  /\ ApproxStart
  /\ TCIdle

\* --------------------------------------------- cpp_make_sparse_approximation
\* lines 9-17: read slot "p", pick the index slot, or stop
CheckType ==
  /\ pc = "start"
  /\ pc' = IF KnownType(sparse_matrix_type) THEN "setup" ELSE "error"
  /\ UNCHANGED <<inputs, N, allocated, approximated_values, next_iter, wpc, locals, hist, tcvars>>

\* an output vector sized by the outer dimension instead of the index array
ValuesPerOuterIndex ==
  [pp \in 0..(OuterDim(sparse_matrix_type, mat_template.Dim) - 1) |-> 0]

\* line 30: Rcpp::NumericVector approximated_values(rj.length()), zero-filled
NewValues == [pp \in 0..(Length(mat_template.inner) - 1) |-> 0]

\* lines 19-34: N, the output vector, and the team entering the parallel loop
Setup ==
  /\ pc = "setup"
  /\ N' = OuterDim(sparse_matrix_type, mat_template.Dim)
  /\ approximated_values' = NewValues
  /\ allocated' = TRUE
  /\ written' = [pp \in DOMAIN NewValues |-> <<>>]
  /\ units_done' = [i \in 0..(OuterDim(sparse_matrix_type, mat_template.Dim) - 1) |-> 0]
  /\ next_iter' = 0
  /\ wpc' = [t \in Workers |-> IF t <= Team THEN "idle" ELSE "out"]
  /\ pc' = "parallel"
  /\ UNCHANGED <<inputs, locals, tcvars>>

\* schedule(dynamic, GRAIN_SIZE): the end of the chunk that starts at iteration first
ChunkEnd(first) == Min(first + grain_size, N)

\* line 34: an idle worker takes the next chunk of iterations off the shared
\* counter, or leaves the loop when none is left
Grab(t) ==
  /\ pc = "parallel"
  /\ wpc[t] = "idle"
  /\ IF next_iter < N
       THEN /\ wi' = [wi EXCEPT ![t] = next_iter]
            /\ wend' = [wend EXCEPT ![t] = ChunkEnd(next_iter)]
            /\ next_iter' = ChunkEnd(next_iter)
            /\ wpc' = [wpc EXCEPT ![t] = "iter"]
       ELSE /\ wpc' = [wpc EXCEPT ![t] = "done"]
            /\ UNCHANGED <<wi, wend, next_iter>>
  /\ UNCHANGED <<inputs, main, approximated_values, wpp, wp2, xc, hist, tcvars>>

\* every run starting at slot 0
RunStartZero(i) == 0

\* line 37: int p1 = p[i]
RunStart(i) == mat_template.p[i]

\* line 38: int p2 = p[i + 1]
RunEnd(i) == mat_template.p[i + 1]

\* xc taken by moving column i out of the factor matrix, which is left zeroed
IterBeginMove(t) ==
  /\ pc = "parallel"
  /\ wpc[t] = "iter"
  /\ wi[t] < OuterFactor(sparse_matrix_type, X, Y).n_cols
  /\ wpp' = [wpp EXCEPT ![t] = RunStart(wi[t])]
  /\ wp2' = [wp2 EXCEPT ![t] = RunEnd(wi[t])]
  /\ xc' = [xc EXCEPT ![t] = OuterFactor(sparse_matrix_type, X, Y).col[wi[t]]]
  /\ LET zero == [f \in DOMAIN xc'[t] |-> 0]
     IN  IF sparse_matrix_type = CSR
           THEN X' = [X EXCEPT !.col[wi[t]] = zero] /\ Y' = Y
           ELSE Y' = [Y EXCEPT !.col[wi[t]] = zero] /\ X' = X
  /\ wpc' = [wpc EXCEPT ![t] = "inner"]
  /\ UNCHANGED <<mat_template, sparse_matrix_type, n_threads, openmp, grain_size, main,
                 approximated_values, next_iter, wi, wend, hist, tcvars>>

\* lines 37-43: p1, p2 and the row vector xc of iteration i, a copy of column i
IterBegin(t) ==
  /\ pc = "parallel"
  /\ wpc[t] = "iter"
  /\ wpp' = [wpp EXCEPT ![t] = RunStart(wi[t])]
  /\ wp2' = [wp2 EXCEPT ![t] = RunEnd(wi[t])]
  /\ \E v \in Col(OuterFactor(sparse_matrix_type, X, Y), wi[t]) :
       xc' = [xc EXCEPT ![t] = v]
  /\ wpc' = [wpc EXCEPT ![t] = "inner"]
  /\ UNCHANGED <<inputs, main, approximated_values, next_iter, wi, wend, hist, tcvars>>

\* xc declared outside the loop and so shared by the team
SharedRowVector(t) == xc[1]

\* line 39: xc is declared in the loop body, so each worker multiplies with its own
RowVector(t) == xc[t]

\* lines 45-50: one pass of the inner loop, writing slot pp
Write(t) ==
  /\ pc = "parallel"
  /\ wpc[t] = "inner"
  /\ wpp[t] < wp2[t]
  /\ LET pp == wpp[t]
         ind == mat_template.inner[pp]
     IN  /\ \E c \in Col(InnerFactor(sparse_matrix_type, X, Y), ind) :
              approximated_values' = [approximated_values EXCEPT ![pp] = Dot(RowVector(t), c)]
         /\ written' = [written EXCEPT ![pp] = Append(@, wi[t])]
  /\ wpp' = [wpp EXCEPT ![t] = @ + 1]
  /\ UNCHANGED <<inputs, main, next_iter, wpc, wi, wend, wp2, xc, units_done, tcvars>>

\* lines 45, 36: the inner loop ends; i++ within the chunk, or back to the scheduler
IterEnd(t) ==
  /\ pc = "parallel"
  /\ wpc[t] = "inner"
  /\ wpp[t] >= wp2[t]
  /\ wi' = [wi EXCEPT ![t] = @ + 1]
  /\ units_done' = [units_done EXCEPT ![wi[t]] = @ + 1]
  /\ wpc' = [wpc EXCEPT ![t] = IF wi[t] + 1 < wend[t] THEN "iter" ELSE "idle"]
  /\ UNCHANGED <<inputs, main, approximated_values, next_iter, wend, wpp, wp2, xc, written, tcvars>>

\* lines 41, 43, 48, 50: a column index past the matrix's last column; a build
\* with bounds checks (or a faulting read) ends the process inside the region
Crash(t) ==
  /\ pc = "parallel"
  /\ \/ /\ wpc[t] = "iter"
        /\ wi[t] >= OuterFactor(sparse_matrix_type, X, Y).n_cols
     \/ /\ wpc[t] = "inner"
        /\ wpp[t] < wp2[t]
        /\ mat_template.inner[wpp[t]] >= InnerFactor(sparse_matrix_type, X, Y).n_cols
  /\ pc' = "crashed"
  /\ UNCHANGED <<inputs, N, allocated, approximated_values, next_iter, wpc, locals, hist, tcvars>>

\* a loop without its barrier: the caller goes on once it has left the loop itself
MasterLeft == wpc[1] \in {"done", "out"}

\* lines 34-53: the barrier that ends the parallel loop: every worker of the
\* team has left it
Joined == \A t \in Workers : wpc[t] \in {"done", "out"}

\* line 54, after the barrier
Return ==
  /\ pc = "parallel"
  /\ Joined
  /\ pc' = "returned"
  /\ UNCHANGED <<inputs, N, allocated, approximated_values, next_iter, wpc, locals, hist, tcvars>>

Next ==
  \/ CheckType
  \/ Setup
  \/ \E t \in Workers : Grab(t)
  \/ \E t \in Workers : IterBegin(t)
  \/ \E t \in Workers : Write(t)
  \/ \E t \in Workers : IterEnd(t)
  \/ \E t \in Workers : Crash(t)
  \/ Return

Spec == Init /\ [][Next]_vars

\* the workers are threads of the OpenMP team: each one that can step does
Fairness ==
  /\ WF_vars(CheckType)
  /\ WF_vars(Setup)
  /\ \A t \in Workers : WF_vars(Grab(t) \/ IterBegin(t) \/ Write(t) \/ IterEnd(t))
  /\ WF_vars(Return)

\* neither the schedule nor the slots written depend on the entries of X and
\* Y: the fair runs are explored over the single-factor matrices
InitFair == Init /\ X.n_rows = 1

FairSpec == InitFair /\ [][Next]_vars /\ Fairness

\* ------------------------------------------------------------ omp_thread_count
\* the call is made outside cpp_make_sparse_approximation
NoCall ==
  /\ sparse_matrix_type = CSR
  /\ mat_template = [p |-> [o \in 0..1 |-> 0], inner |-> <<>>, Dim |-> [d \in 0..1 |-> 1]]
  /\ X = [n_rows |-> 1, n_cols |-> 1, col |-> [c \in 0..0 |-> [f \in 0..0 |-> 0]]]
  /\ Y = X
  /\ n_threads = 1
  /\ grain_size = 1
  /\ ApproxStart

InitTC ==
  /\ NoCall
  /\ \E b \in ({TRUE} \X Threads) \cup {<<FALSE, 1>>} :
       openmp = b[1] /\ tc_team = b[2]
  /\ tc_pc = "start"
  /\ n = 0
  /\ n_private = [t \in Threads |-> 0]
  /\ th_pc = [t \in Threads |-> "out"]
  /\ tc_ret = 0

\* lines 82-85: int n = 0; with _OPENMP the team enters the region, each thread
\* with a private n initialised to 0
TCEnter ==
  /\ tc_pc = "start"
  /\ n' = 0
  /\ IF openmp
       THEN /\ tc_pc' = "region"
            /\ th_pc' = [t \in Threads |-> IF t <= tc_team THEN "todo" ELSE "out"]
            /\ n_private' = [t \in Threads |-> 0]
       ELSE /\ tc_pc' = "serial"
            /\ UNCHANGED <<th_pc, n_private>>
  /\ UNCHANGED <<inputs, approx, tc_team, tc_ret>>

\* line 86 in the region: n += 1 on the thread's private copy
TCAdd(t) ==
  /\ tc_pc = "region"
  /\ th_pc[t] = "todo"
  /\ n_private' = [n_private EXCEPT ![t] = @ + 1]
  /\ th_pc' = [th_pc EXCEPT ![t] = "added"]
  /\ UNCHANGED <<inputs, approx, tc_pc, tc_team, n, tc_ret>>

\* a thread storing its own count over n
CombineOverwrite(acc, priv) == priv

\* line 84, reduction(+:n): a private copy is added to the original n
Combine(acc, priv) == acc + priv

\* line 84: at the end of the region each thread's copy is combined, atomically
TCCombine(t) ==
  /\ tc_pc = "region"
  /\ th_pc[t] = "added"
  /\ n' = Combine(n, n_private[t])
  /\ th_pc' = [th_pc EXCEPT ![t] = "combined"]
  /\ UNCHANGED <<inputs, approx, tc_pc, tc_team, n_private, tc_ret>>

\* line 86 without _OPENMP: n += 1 on the caller
TCSerialAdd ==
  /\ tc_pc = "serial"
  /\ n' = n + 1
  /\ tc_pc' = "joined"
  /\ UNCHANGED <<inputs, approx, tc_team, n_private, th_pc, tc_ret>>

\* line 87: return n, once the region has ended
TCReturn ==
  /\ \/ tc_pc = "joined"
     \/ tc_pc = "region" /\ \A t \in Threads : th_pc[t] \in {"combined", "out"}
  /\ tc_ret' = n
  /\ tc_pc' = "returned"
  /\ UNCHANGED <<inputs, approx, tc_team, n, n_private, th_pc>>

NextTC ==
  \/ TCEnter
  \/ \E t \in Threads : TCAdd(t)
  \/ \E t \in Threads : TCCombine(t)
  \/ TCSerialAdd
  \/ TCReturn

SpecTC == InitTC /\ [][NextTC]_vars

\* --------------------------------------------------- the sequential run
\* lines 45-51 run by one thread: the inner loop of one iteration
RECURSIVE SeqInner(_, _, _, _, _, _, _, _)
SeqInner(out, type, tmpl, x, y, row, pp, p2) ==
  IF pp < p2
    THEN SeqInner([out EXCEPT ![pp] = Dot(row, InnerFactor(type, x, y).col[tmpl.inner[pp]])],
                  type, tmpl, x, y, row, pp + 1, p2)
    ELSE out

\* lines 36-53 run by one thread: i = first, first + 1, ..., last - 1
RECURSIVE SeqOuter(_, _, _, _, _, _, _)
SeqOuter(out, type, tmpl, x, y, first, last) ==
  IF first < last
    THEN SeqOuter(SeqInner(out, type, tmpl, x, y, OuterFactor(type, x, y).col[first],
                           tmpl.p[first], tmpl.p[first + 1]),
                  type, tmpl, x, y, first + 1, last)
    ELSE out

\* lines 30-54 run by one thread, on inputs within the contract
SeqRun(type, tmpl, x, y) ==
  SeqOuter([pp \in 0..(Length(tmpl.inner) - 1) |-> 0], type, tmpl, x, y,
           0, OuterDim(type, tmpl.Dim))

\* ----------------------------------------------------------------- claims
Slots == DOMAIN mat_template.inner
OuterIndices == 0..(OuterDim(sparse_matrix_type, mat_template.Dim) - 1)
Writers(pp) == {written[pp][w] : w \in 1..Len(written[pp])}
WritePending(t) == wpc[t] = "inner" /\ wpp[t] < wp2[t]
ValidFormat == sparse_matrix_type \in {CSC, CSR}

\* the reference: sum over f of a[f] * b[f], term by term
RECURSIVE SumOfProducts(_, _, _)
SumOfProducts(a, b, F) ==
  IF F = {} THEN 0
  ELSE LET f == CHOOSE g \in F : TRUE
       IN  a[f] * b[f] + SumOfProducts(a, b, F \ {f})

Reference(i, pp) ==
  IF sparse_matrix_type = CSR
    THEN SumOfProducts(X.col[i], Y.col[mat_template.inner[pp]], 0..(X.n_rows - 1))
    ELSE SumOfProducts(Y.col[i], X.col[mat_template.inner[pp]], 0..(Y.n_rows - 1))

\* C1: on inputs within the contract the returned vector holds, at every slot
\* pp of the run of outer index i, the dot product of column i of X with column
\* inner[pp] of Y (CSR), or of column i of Y with column inner[pp] of X (CSC).
C1_MatchesReference ==
  (pc = "returned" /\ InContract) =>
    \A i \in OuterIndices :
      \A pp \in mat_template.p[i]..(mat_template.p[i + 1] - 1) :
        approximated_values[pp] = Reference(i, pp)

C1_Witness ==
  /\ pc = "returned"
  /\ InContract
  /\ sparse_matrix_type = CSC
  /\ X.n_rows = 2
  /\ \E pp \in Slots : approximated_values[pp] = 2

\* C2: a type that is neither CSC nor CSR stops the call with the error before
\* the output vector exists, before any iteration is handed out and before any
\* slot is written; types 1 and 2 never end in that error.
C2_UnknownTypeStops ==
  /\ ~ValidFormat =>
       /\ pc \in {"start", "error"}
       /\ ~allocated
       /\ approximated_values = <<>>
       /\ written = <<>>
       /\ next_iter = 0
       /\ \A t \in Workers : wpc[t] = "out"
  /\ ValidFormat => pc # "error"

C2_Witness == pc = "error" /\ sparse_matrix_type = 3

\* C3: whatever the team size, the assignment of chunks to workers and the
\* interleaving of their steps, the returned vector is the one the loop
\* produces when a single thread runs it in order.
C3_SameAsSequential ==
  (pc = "returned" /\ InContract) =>
    approximated_values = SeqRun(sparse_matrix_type, mat_template, X, Y)

C3_Witness ==
  /\ pc = "returned"
  /\ InContract
  /\ openmp /\ n_threads = 2
  /\ wend[1] > 0 /\ wend[2] > 0
  /\ \E pp, qq \in Slots : Writers(pp) # {} /\ Writers(qq) # {} /\ Writers(pp) # Writers(qq)

\* C4: an input outside the contract is rejected before the parallel loop: the
\* call never reaches the loop, never returns a vector, never writes a slot.
C4_RejectedBeforeLoop ==
  ~InContract =>
    /\ pc \notin {"parallel", "returned", "crashed"}
    /\ \A pp \in DOMAIN written : written[pp] = <<>>

\* C5: the CSR result on (template, X, Y) equals, slot by slot, the CSC result
\* on the transposed template (same p and index arrays, Dim swapped) with the
\* factor matrices swapped to (Y, X).
Transposed(tmpl) == [tmpl EXCEPT !.Dim = [d \in 0..1 |-> tmpl.Dim[1 - d]]]

C5_CsrIsCscOfTranspose ==
  (pc = "returned" /\ InContract /\ sparse_matrix_type = CSR) =>
    approximated_values = SeqRun(CSC, Transposed(mat_template), Y, X)

C5_Witness ==
  /\ pc = "returned"
  /\ InContract
  /\ sparse_matrix_type = CSR
  /\ mat_template.Dim[0] # mat_template.Dim[1]
  /\ X.col[0] # Y.col[0]
  /\ \E pp \in Slots : approximated_values[pp] > 0

\* C6: the output vector has as many elements as the index array, whatever
\* the outer dimension and the factor matrices; a template without nonzeros
\* within the contract yields the empty vector and no error.
C6_LengthIsNnz ==
  /\ allocated => Length(approximated_values) = Length(mat_template.inner)
  /\ pc = "returned" => DOMAIN approximated_values = Slots
  /\ (InContract /\ ValidFormat /\ Slots = {}) =>
       /\ pc \notin {"error", "crashed"}
       /\ approximated_values = <<>>

C6_Witness ==
  /\ pc = "returned"
  /\ Slots = {}
  /\ approximated_values = <<>>
  /\ mat_template.Dim[0] = 2 /\ mat_template.Dim[1] = 2

\* C7: a slot is written only by the iteration whose run [p[i], p[i+1]) holds
\* it, so never by two different outer indices; two workers are never about to
\* write the same slot; an outer index with an empty run writes nothing.
C7_DisjointRanges ==
  allocated =>
    /\ \A pp \in DOMAIN written : \A i \in Writers(pp) :
         mat_template.p[i] <= pp /\ pp < mat_template.p[i + 1]
    /\ \A pp \in DOMAIN written : Cardinality(Writers(pp)) <= 1
    /\ \A t, u \in Workers :
         (t # u /\ WritePending(t) /\ WritePending(u)) => wpp[t] # wpp[u]
    /\ \A i \in OuterIndices :
         mat_template.p[i] = mat_template.p[i + 1] =>
           \A pp \in DOMAIN written : i \notin Writers(pp)

C7_Witness ==
  /\ pc = "parallel"
  /\ WritePending(1) /\ WritePending(2)
  /\ wi[1] # wi[2]

\* C8: the call returns only after the barrier, with every outer index
\* 0..N-1 run to completion exactly once and, within the contract, every slot
\* written exactly once; and with every worker scheduled fairly a call within
\* the contract does return.
C8_AllDoneAtReturn ==
  pc = "returned" =>
    /\ \A t \in Workers : wpc[t] \in {"done", "out"}
    /\ next_iter >= N
    /\ \A i \in OuterIndices : units_done[i] = 1
    /\ InContract => \A pp \in Slots : Len(written[pp]) = 1

C8_ReturnsAfterJoin ==
  /\ []C8_AllDoneAtReturn
  /\ (pc = "start" /\ ValidFormat /\ InContract) ~> (pc = "returned")

C8_Witness ==
  /\ pc = "returned"
  /\ InContract
  /\ openmp /\ n_threads = 2
  /\ N = 2
  /\ Length(mat_template.inner) = 2
  /\ wend[1] # wend[2]

\* C9: no step, towards the return or towards the error, changes the
\* template, the factor matrices or the arguments; a step that sets a
\* worker's xc changes no other worker's xc.
C9_Frame ==
  /\ X' = X /\ Y' = Y
  /\ mat_template' = mat_template
  /\ sparse_matrix_type' = sparse_matrix_type
  /\ n_threads' = n_threads
  /\ \A t, u \in Workers : (t # u /\ xc'[t] # xc[t]) => xc'[u] = xc[u]

C9_InputsReadOnly == [][C9_Frame]_vars

C9_Witness ==
  /\ pc = "returned"
  /\ \A t \in Workers : xc[t] # <<>>
  /\ \E pp \in Slots : Len(written[pp]) = 1

\* C10: omp_thread_count returns the number of threads that ran the region,
\* whatever the order of their increments and of the reduction's additions,
\* and 1 when it is built without OpenMP.
C10_CountsTheTeam ==
  tc_pc = "returned" => tc_ret = (IF openmp THEN tc_team ELSE 1)

C10_Witness == tc_pc = "returned" /\ openmp /\ tc_team = 3 /\ tc_ret = 3

====
